---- MODULE Spec2Model ----
(***************************************************************************)
(* A model of the event chain (runtime/chain/chain.rs) and of the value     *)
(* mirror (runtime/chain/values.rs) of wasmtime-chaining.                   *)
(*                                                                          *)
(* Conventions.                                                             *)
(*   Option<T>      None is <<>>, Some(x) is <<x>>.                         *)
(*   &MetaEvent     a reference into Chain.events is the position (1..len)  *)
(*                  of the entry it points at.                              *)
(*   String         a sequence of one-character strings.                    *)
(*   Vec<u8>        a sequence of numbers in 0..255.                        *)
(*   u64 hash       a number drawn from HashSpace, a sample of u64.         *)
(***************************************************************************)
EXTENDS Integers, Sequences, FiniteSets, TLC

VARIABLES
    events,     \* Chain.events: Vec<MetaEvent>
    hasher,     \* the values DefaultHasher has produced so far, by hashed content
    calls,      \* history: the Events passed to Chain::add and the hash each add returned
    op,         \* the operation performed last
    arg,        \* Option of the hash it was called with
    ret,        \* what that operation returned
    wire,       \* Option of the JSON text handed to the string lowering
    sent,       \* history: the Chain that was encoded into wire
    lifted,     \* Option of the Result of the last Lift
    fa, fb,     \* two SerializableVal float values
    sa, sb,     \* Option of what hashing fa (fb) fed to the Hasher
    value,      \* a dynamic component value (Val)
    outcome     \* Option of the outcome of from_val / from_vals on it

vars == <<events, hasher, calls, op, arg, ret, wire, sent, lifted, fa, fb, sa, sb, value, outcome>>

chainVars == <<events, hasher, calls, op, arg, ret>>
wireVars == <<wire, sent, lifted>>
hashVars == <<fa, fb, sa, sb>>
valVars == <<value, outcome>>

None == <<>>
Some(x) == <<x>>

(***************************************************************************)
(* Bounds.                                                                  *)
(***************************************************************************)
MaxLen == 3
NumHashes == 3
MaxDepth == 2

\* A sample of u64 values that DefaultHasher may return: one, two and three digits.
HashSpace == {57 * i : i \in 0..(NumHashes - 1)}

\* The (type_, data) pairs callers build Events from.
TypeSpace == {<<"x">>, <<"y", "\"", "\\", "\n">>}
DataSpace == {<<1, 2, 3>>, <<0, 255>>}

(***************************************************************************)
(* Event and Chain.                                                         *)
(***************************************************************************)
Event_new(type_, data) == [type_ |-> type_, parent |-> None, data |-> data]

\* #[derive(Hash)] on Event feeds type_, parent and data, in that order, to the hasher.
HashKey(event) == <<event.type_, event.parent, event.data>>

Chain_new == <<>>

last(evs) == IF Len(evs) = 0 THEN None ELSE Some(evs[Len(evs)])

\* The first entry's hash instead of the last one's.
headFirst(evs) == IF Len(evs) = 0 THEN None ELSE Some(evs[1].hash)

\* self.events.last().map(|node| node.hash)
head(evs) == IF last(evs) = None THEN None ELSE Some(last(evs)[1].hash)

\* The last match instead of the first.
findLast(evs, hash) ==
    LET hits == {i \in 1..Len(evs) : evs[i].hash = hash}
    IN  IF hits = {} THEN None
        ELSE Some(CHOOSE i \in hits : \A j \in hits : i >= j)

\* self.events.iter().find(|node| node.hash == hash)
find(evs, hash) ==
    LET hits == {i \in 1..Len(evs) : evs[i].hash = hash}
    IN  IF hits = {} THEN None
        ELSE Some(CHOOSE i \in hits : \A j \in hits : i <= j)

get_event_by_hash(evs, hash) == find(evs, hash)

\* The entry of hash itself instead of its parent's.
get_parentNode(evs, hash) == find(evs, hash)

get_parent(evs, hash) ==
    LET node == find(evs, hash)
    IN  IF node = None THEN None
        ELSE LET parent == evs[node[1]].event.parent
             IN  IF parent = None THEN None
                 ELSE get_event_by_hash(evs, parent[1])

\* An add that skips an event whose hash is already stored.
addDedup(evs, event, hash) ==
    IF find(evs, hash) # None THEN evs
    ELSE Append(evs, [hash |-> hash,
                      event |-> [event EXCEPT !.parent =
                                    IF last(evs) = None THEN None ELSE Some(last(evs)[1].hash)]])

\* An add that links the event to the first entry instead of the last.
addParentFirst(evs, event, hash) ==
    Append(evs, [hash |-> hash,
                 event |-> [event EXCEPT !.parent =
                               IF Len(evs) = 0 THEN None ELSE Some(evs[1].hash)]])

\* An add that links the event to itself.
addParentSelf(evs, event, hash) ==
    Append(evs, [hash |-> hash, event |-> [event EXCEPT !.parent = Some(hash)]])

\* Chain::add after its first line: hash is what calculate_hash returned for the
\* event as it was passed in.
add(evs, event, hash) ==
    LET parent_hash == IF last(evs) = None THEN None ELSE Some(last(evs)[1].hash)
        node == [hash |-> hash, event |-> [event EXCEPT !.parent = parent_hash]]
    IN  Append(evs, node)

\* DefaultHasher is a fixed function of the bytes it is fed, known here only as
\* that: its value on a content is drawn the first time the content is hashed and
\* is the same ever after.
calculate_hash(event, h) ==
    /\ h \in HashSpace
    /\ HashKey(event) \in DOMAIN hasher => h = hasher[HashKey(event)]
    /\ hasher' = [k \in DOMAIN hasher \cup {HashKey(event)} |->
                    IF k = HashKey(event) THEN h ELSE hasher[k]]

\* An add that assigns the parent first and hashes second.
AddHashLast(type_, data) ==
    /\ Len(events) < MaxLen
    /\ LET event == Event_new(type_, data)
           linked == [event EXCEPT !.parent = head(events)]
       IN  \E hash \in HashSpace :
              /\ calculate_hash(linked, hash)
              /\ events' = Append(events, [hash |-> hash, event |-> linked])
              /\ calls' = Append(calls, [type_ |-> type_, data |-> data, ret |-> hash])
              /\ op' = "add"
              /\ arg' = None
              /\ ret' = Some(hash)

\* chain.add(Event::new(type_, data))
Add(type_, data) ==
    /\ Len(events) < MaxLen
    /\ LET event == Event_new(type_, data)
       IN  \E hash \in HashSpace :
              /\ calculate_hash(event, hash)
              /\ events' = add(events, event, hash)
              /\ calls' = Append(calls, [type_ |-> type_, data |-> data, ret |-> hash])
              /\ op' = "add"
              /\ arg' = None
              /\ ret' = Some(hash)

GetEventByHash(hash) ==
    /\ op' = "get_event_by_hash"
    /\ arg' = Some(hash)
    /\ ret' = get_event_by_hash(events, hash)
    /\ UNCHANGED <<events, hasher, calls>>

GetParent(hash) ==
    /\ op' = "get_parent"
    /\ arg' = Some(hash)
    /\ ret' = get_parent(events, hash)
    /\ UNCHANGED <<events, hasher, calls>>

ReadHead ==
    /\ op' = "head"
    /\ arg' = None
    /\ ret' = head(events)
    /\ UNCHANGED <<events, hasher, calls>>

(***************************************************************************)
(* The Chain ABI adapter: serde_json::to_string(self) on the way out and    *)
(* serde_json::from_str(&json) on the way in, with the Serialize and        *)
(* Deserialize impls that #[derive] generates for Chain, MetaEvent and      *)
(* Event.  Text is a sequence of characters.  The string lowering and       *)
(* lifting of the component runtime carry the text unchanged.               *)
(***************************************************************************)
K_events == <<"e", "v", "e", "n", "t", "s">>
K_hash == <<"h", "a", "s", "h">>
K_event == <<"e", "v", "e", "n", "t">>
K_type_ == <<"t", "y", "p", "e", "_">>
K_parent == <<"p", "a", "r", "e", "n", "t">>
K_data == <<"d", "a", "t", "a">>
T_null == <<"n", "u", "l", "l">>

DigitChars == <<"0", "1", "2", "3", "4", "5", "6", "7", "8", "9">>

RECURSIVE Dec(_)
\* An unsigned integer in decimal.
Dec(n) == IF n < 10 THEN <<DigitChars[n + 1]>>
          ELSE Dec(n \div 10) \o <<DigitChars[(n % 10) + 1]>>

\* One character of a string as JSON writes it.
EscapeChar(c) ==
    CASE c = "\"" -> <<"\\", "\"">>
      [] c = "\\" -> <<"\\", "\\">>
      [] c = "\n" -> <<"\\", "n">>
      [] c = "\t" -> <<"\\", "t">>
      [] c = "\r" -> <<"\\", "r">>
      [] OTHER -> <<c>>

RECURSIVE Escape(_)
Escape(str) == IF str = <<>> THEN <<>> ELSE EscapeChar(Head(str)) \o Escape(Tail(str))

to_string_str(str) == <<"\"">> \o Escape(str) \o <<"\"">>

to_string_u(n) == Dec(n)

to_string_option(o) == IF o = None THEN T_null ELSE to_string_u(o[1])

RECURSIVE Joined(_)
\* Encoded elements separated by commas.
Joined(texts) ==
    IF texts = <<>> THEN <<>>
    ELSE IF Len(texts) = 1 THEN texts[1]
    ELSE texts[1] \o <<",">> \o Joined(Tail(texts))

to_string_bytes(data) ==
    <<"[">> \o Joined([i \in 1..Len(data) |-> to_string_u(data[i])]) \o <<"]">>

\* An Event written without its parent field.
to_string_eventNoParent(event) ==
    <<"{">> \o to_string_str(K_type_) \o <<":">> \o to_string_str(event.type_)
    \o <<",">> \o to_string_str(K_data) \o <<":">> \o to_string_bytes(event.data)
    \o <<"}">>

\* #[derive(Serialize)] struct Event { type_, parent, data }
to_string_event(event) ==
    <<"{">> \o to_string_str(K_type_) \o <<":">> \o to_string_str(event.type_)
    \o <<",">> \o to_string_str(K_parent) \o <<":">> \o to_string_option(event.parent)
    \o <<",">> \o to_string_str(K_data) \o <<":">> \o to_string_bytes(event.data)
    \o <<"}">>

\* #[derive(Serialize)] struct MetaEvent { hash, event }
to_string_meta(node) ==
    <<"{">> \o to_string_str(K_hash) \o <<":">> \o to_string_u(node.hash)
    \o <<",">> \o to_string_str(K_event) \o <<":">> \o to_string_event(node.event)
    \o <<"}">>

\* #[derive(Serialize)] struct Chain { events }
to_string(evs) ==
    <<"{">> \o to_string_str(K_events) \o <<":">>
    \o <<"[">> \o Joined([i \in 1..Len(evs) |-> to_string_meta(evs[i])]) \o <<"]">>
    \o <<"}">>

\* The result of a parsing step: the value and the position after it, or failure.
Parsed(v, pos) == [ok |-> TRUE, v |-> v, pos |-> pos]
Failed == [ok |-> FALSE, v |-> <<>>, pos |-> 0]

\* The character at pos, "" past the end of the text.
Peek(text, pos) == IF pos <= Len(text) THEN text[pos] ELSE ""

IsWs(c) == c \in {" ", "\n", "\t", "\r"}
IsDigit(c) == \E d \in 1..10 : DigitChars[d] = c
DigitOf(c) == (CHOOSE d \in 1..10 : DigitChars[d] = c) - 1

RECURSIVE SkipWs(_, _)
SkipWs(text, pos) == IF IsWs(Peek(text, pos)) THEN SkipWs(text, pos + 1) ELSE pos

\* text holds the characters of word at pos.
Expect(text, pos, word) ==
    /\ pos + Len(word) - 1 <= Len(text)
    /\ \A i \in 1..Len(word) : text[pos + i - 1] = word[i]

RECURSIVE ParseDigits(_, _, _)
ParseDigits(text, pos, acc) ==
    IF IsDigit(Peek(text, pos))
    THEN ParseDigits(text, pos + 1, 10 * acc + DigitOf(Peek(text, pos)))
    ELSE Parsed(acc, pos)

\* An unsigned integer of at most max (max < 0: no limit within the sample): no
\* sign, no leading zero, no fraction and no exponent.
ParseU(text, pos, max) ==
    LET c == Peek(text, pos)
        r == IF c = "0" THEN Parsed(0, pos + 1) ELSE ParseDigits(text, pos, 0)
    IN  IF ~IsDigit(c) THEN Failed
        ELSE IF IsDigit(Peek(text, r.pos)) \/ Peek(text, r.pos) \in {".", "e", "E"} THEN Failed
        ELSE IF max >= 0 /\ r.v > max THEN Failed
        ELSE r

\* The character an escape sequence stands for, "" when it is none.
Unescape(c) ==
    CASE c = "\"" -> "\""
      [] c = "\\" -> "\\"
      [] c = "/" -> "/"
      [] c = "n" -> "\n"
      [] c = "t" -> "\t"
      [] c = "r" -> "\r"
      [] OTHER -> ""

RECURSIVE ParseChars(_, _, _)
\* The characters of a string up to its closing quote.
ParseChars(text, pos, acc) ==
    LET c == Peek(text, pos)
    IN  IF c = "" THEN Failed
        ELSE IF c = "\"" THEN Parsed(acc, pos + 1)
        ELSE IF c = "\\"
             THEN IF Unescape(Peek(text, pos + 1)) = "" THEN Failed
                  ELSE ParseChars(text, pos + 2, Append(acc, Unescape(Peek(text, pos + 1))))
        ELSE IF c \in {"\n", "\t", "\r"} THEN Failed
        ELSE ParseChars(text, pos + 1, Append(acc, c))

ParseString(text, pos) ==
    IF Peek(text, pos) = "\"" THEN ParseChars(text, pos + 1, <<>>) ELSE Failed

\* The fields of each struct and the kind of value each holds.
Fields(kind) ==
    CASE kind = "chain" -> (K_events :> "seq_meta")
      [] kind = "meta" -> (K_hash :> "u64") @@ (K_event :> "event")
      [] kind = "event" ->
            (K_type_ :> "string") @@ (K_parent :> "opt_u64") @@ (K_data :> "bytes")

\* The struct built from the fields read; a missing Option field is None, any
\* other missing field is an error.
Build(kind, got) ==
    CASE kind = "chain" ->
            IF K_events \in DOMAIN got THEN Some(got[K_events]) ELSE None
      [] kind = "meta" ->
            IF {K_hash, K_event} \subseteq DOMAIN got
            THEN Some([hash |-> got[K_hash], event |-> got[K_event]])
            ELSE None
      [] kind = "event" ->
            IF {K_type_, K_data} \subseteq DOMAIN got
            THEN Some([type_ |-> got[K_type_],
                       parent |-> IF K_parent \in DOMAIN got THEN got[K_parent] ELSE None,
                       data |-> got[K_data]])
            ELSE None

RECURSIVE ParseValue(_, _, _), ParseElems(_, _, _, _), ParseFields(_, _, _, _)

\* A value of the given kind at pos (leading white space skipped).
ParseValue(kind, text, at) ==
    LET pos == SkipWs(text, at)
    IN  CASE kind = "u64" -> ParseU(text, pos, -1)
          [] kind = "u8" -> ParseU(text, pos, 255)
          [] kind = "string" -> ParseString(text, pos)
          [] kind = "opt_u64" ->
                IF Peek(text, pos) = "n"
                THEN IF Expect(text, pos, T_null) THEN Parsed(None, pos + 4) ELSE Failed
                ELSE LET r == ParseU(text, pos, -1)
                     IN  IF r.ok THEN Parsed(Some(r.v), r.pos) ELSE Failed
          [] kind \in {"bytes", "seq_meta"} ->
                IF Peek(text, pos) # "[" THEN Failed
                ELSE IF Peek(text, SkipWs(text, pos + 1)) = "]"
                THEN Parsed(<<>>, SkipWs(text, pos + 1) + 1)
                ELSE ParseElems(IF kind = "bytes" THEN "u8" ELSE "meta", text, pos + 1, <<>>)
          [] OTHER ->
                IF Peek(text, pos) # "{" THEN Failed
                ELSE IF Peek(text, SkipWs(text, pos + 1)) = "}"
                THEN LET b == Build(kind, <<>>)
                     IN  IF b = None THEN Failed ELSE Parsed(b[1], SkipWs(text, pos + 1) + 1)
                ELSE ParseFields(kind, text, pos + 1, [k \in {} |-> <<>>])

\* The elements of an array from pos on: an element, then a comma or the bracket.
ParseElems(kind, text, pos, acc) ==
    LET r == ParseValue(kind, text, pos)
        after == SkipWs(text, r.pos)
    IN  IF ~r.ok THEN Failed
        ELSE IF Peek(text, after) = "," THEN ParseElems(kind, text, after + 1, Append(acc, r.v))
        ELSE IF Peek(text, after) = "]" THEN Parsed(Append(acc, r.v), after + 1)
        ELSE Failed

\* The fields of an object from pos on: a known key not read before, a colon,
\* its value, then a comma or the brace.
ParseFields(kind, text, pos, got) ==
    LET key == ParseString(text, SkipWs(text, pos))
        colon == SkipWs(text, key.pos)
    IN  IF ~key.ok THEN Failed
        ELSE IF key.v \notin DOMAIN Fields(kind) \/ key.v \in DOMAIN got THEN Failed
        ELSE IF Peek(text, colon) # ":" THEN Failed
        ELSE LET r == ParseValue(Fields(kind)[key.v], text, colon + 1)
                 after == SkipWs(text, r.pos)
                 now == (key.v :> r.v) @@ got
                 b == Build(kind, now)
             IN  IF ~r.ok THEN Failed
                 ELSE IF Peek(text, after) = "," THEN ParseFields(kind, text, after + 1, now)
                 ELSE IF Peek(text, after) = "}"
                      THEN IF b = None THEN Failed ELSE Parsed(b[1], after + 1)
                 ELSE Failed

Ok(v) == [ok |-> TRUE, v |-> v]
Err == [ok |-> FALSE, v |-> <<>>]

\* serde_json::from_str::<Chain>: one Chain and nothing but white space after it.
\* A text that to_string cannot have written is answered Err, apart from white
\* space between tokens and the order of keys.
from_str(text) ==
    LET r == ParseValue("chain", text, 1)
    IN  IF r.ok /\ SkipWs(text, r.pos) = Len(text) + 1 THEN Ok(r.v) ELSE Err

\* <Chain as Lower>::lower / store
Lower ==
    /\ wire' = Some(to_string(events))
    /\ sent' = events
    /\ lifted' = None

\* <Chain as Lift>::lift / load, once for each text that crosses the boundary
Lift ==
    /\ wire # None
    /\ lifted = None
    /\ lifted' = Some(from_str(wire[1]))
    /\ UNCHANGED <<wire, sent>>

(***************************************************************************)
(* impl Hash for SerializableVal, on Float32 and Float64.  A float is its    *)
(* bit pattern, most significant byte first: f32 has 1 sign bit, 8 exponent  *)
(* bits and 23 mantissa bits, f64 has 1, 11 and 52.  What hashing feeds to   *)
(* the Hasher is the sequence of its write calls.                            *)
(***************************************************************************)
Float32(bits) == [tag |-> "Float32", bits |-> bits]
Float64(bits) == [tag |-> "Float64", bits |-> bits]

\* The position of the variant in enum SerializableVal.
discriminant(v) == CASE v.tag = "Float32" -> 9 [] v.tag = "Float64" -> 10

AllZero(bytes) == \A i \in 1..Len(bytes) : bytes[i] = 0

\* f32::is_nan / f64::is_nan: exponent all ones, mantissa not zero.
is_nan(v) ==
    IF v.tag = "Float32"
    THEN /\ (v.bits[1] % 128) * 2 + (v.bits[2] \div 128) = 255
         /\ ~(v.bits[2] % 128 = 0 /\ AllZero(SubSeq(v.bits, 3, 4)))
    ELSE /\ (v.bits[1] % 128) * 16 + (v.bits[2] \div 16) = 2047
         /\ ~(v.bits[2] % 16 = 0 /\ AllZero(SubSeq(v.bits, 3, 8)))

\* *f == 0.0: every bit but the sign is zero.
is_zero(v) == v.bits[1] % 128 = 0 /\ AllZero(Tail(v.bits))

write_isize(n) == [call |-> "write_isize", v |-> n]
write_u32(bytes) == [call |-> "write_u32", v |-> bytes]
write_u64(bytes) == [call |-> "write_u64", v |-> bytes]
u32_MAX == <<255, 255, 255, 255>>
u64_MAX == <<255, 255, 255, 255, 255, 255, 255, 255>>

\* A hash that canonicalizes NaN only.
SerializableVal_hashSignedZero(v) ==
    <<write_isize(discriminant(v))>> \o
    IF v.tag = "Float32"
    THEN IF is_nan(v) THEN <<write_u32(u32_MAX)>> ELSE <<write_u32(v.bits)>>
    ELSE IF is_nan(v) THEN <<write_u64(u64_MAX)>> ELSE <<write_u64(v.bits)>>

\* SerializableVal::hash: the discriminant, then the canonical or the raw bits.
SerializableVal_hash(v) ==
    <<write_isize(discriminant(v))>> \o
    IF v.tag = "Float32"
    THEN IF is_nan(v) THEN <<write_u32(u32_MAX)>>
         ELSE IF is_zero(v) THEN <<write_u32(<<0, 0, 0, 0>>)>>
         ELSE <<write_u32(v.bits)>>
    ELSE IF is_nan(v) THEN <<write_u64(u64_MAX)>>
         ELSE IF is_zero(v) THEN <<write_u64(<<0, 0, 0, 0, 0, 0, 0, 0>>)>>
         ELSE <<write_u64(v.bits)>>

\* Bit patterns: zeros, subnormals, 1.5 and -1.5, infinities, NaNs of both signs
\* and several payloads, and the all-ones pattern.
F32Space ==
    {Float32(<<b1, b2, 0, b4>>) : b1 \in {0, 63, 127, 128, 191, 255},
                                   b2 \in {0, 128, 192},
                                   b4 \in {0, 1}}
    \cup {Float32(u32_MAX)}
F64Space ==
    {Float64(<<b1, b2, 0, 0, 0, 0, 0, b8>>) : b1 \in {0, 63, 127, 128, 191, 255},
                                               b2 \in {0, 240, 248},
                                               b8 \in {0, 1}}
    \cup {Float64(u64_MAX)}

\* fa.hash(&mut state) on a fresh state
HashA ==
    /\ sa = None
    /\ sa' = Some(SerializableVal_hash(fa))
    /\ UNCHANGED <<fa, fb, sb>>

\* fb.hash(&mut state) on a fresh state
HashB ==
    /\ sb = None
    /\ sb' = Some(SerializableVal_hash(fb))
    /\ UNCHANGED <<fa, fb, sa>>

(***************************************************************************)
(* SerializableVal::from_val and from_vals.  A Val and its mirror are        *)
(* records of a tag and the payload of that case; Box is transparent.  A     *)
(* call ends in Ok(value), in Err, or in a panic that unwinds out of every   *)
(* enclosing call.                                                           *)
(***************************************************************************)
Returned(sv) == [kind |-> "Ok", sv |-> sv]
ReturnedAll(svs) == [kind |-> "Ok", svs |-> svs]
ReturnedErr == [kind |-> "Err"]
Panicked == [kind |-> "Panic"]

\* A Resource arm that reports an error instead of panicking.
from_val_resourceErr(val) == ReturnedErr

\* Val::Resource(_r) => panic!(..)
from_val_resource(val) == Panicked

\* o.as_ref(), with name and r for the payload of Variant and Result
PayloadOf(val) == val.payload

RECURSIVE from_val(_), collect(_, _), collect_fields(_, _)

\* iter().map(from_val).collect::<Result<Vec<_>>>(): in order, stopping at the
\* first Err; acc holds the elements converted so far.
collect(vals, acc) ==
    IF vals = <<>> THEN ReturnedAll(acc)
    ELSE LET r == from_val(Head(vals))
         IN  IF r.kind = "Ok" THEN collect(Tail(vals), Append(acc, r.sv)) ELSE r

\* iter().map(|(k, v)| Ok((k.clone(), from_val(v)?))).collect::<Result<Vec<_>>>()
collect_fields(fields, acc) ==
    IF fields = <<>> THEN ReturnedAll(acc)
    ELSE LET r == from_val(Head(fields)[2])
         IN  IF r.kind = "Ok"
             THEN collect_fields(Tail(fields), Append(acc, <<Head(fields)[1], r.sv>>))
             ELSE r

from_val(val) ==
    CASE val.tag \in {"Bool", "S8", "U8", "S16", "U16", "S32", "U32", "S64", "U64",
                      "Float32", "Float64", "Char", "String", "Enum", "Flags"} ->
            Returned(val)
      [] val.tag \in {"List", "Tuple"} ->
            LET r == collect(val.items, <<>>)
            IN  IF r.kind = "Ok" THEN Returned([tag |-> val.tag, items |-> r.svs]) ELSE r
      [] val.tag = "Record" ->
            LET r == collect_fields(val.fields, <<>>)
            IN  IF r.kind = "Ok" THEN Returned([tag |-> "Record", fields |-> r.svs]) ELSE r
      [] val.tag \in {"Variant", "Option", "Result"} ->
            IF PayloadOf(val) = None THEN Returned(val)
            ELSE LET r == from_val(PayloadOf(val)[1])
                 IN  IF r.kind = "Ok"
                     THEN Returned([val EXCEPT !.payload = Some(r.sv)])
                     ELSE r
      [] val.tag = "Resource" -> from_val_resource(val)

\* vals.iter().map(SerializableVal::from_val).collect()
from_vals(vals) == collect(vals, <<>>)

\* One value of every case without a nested value.
Resource == [tag |-> "Resource", handle |-> 1]
Plain == [tag |-> "Bool", b |-> TRUE]
Leaves ==
    {Plain, Resource,
     [tag |-> "S8", n |-> -128], [tag |-> "U8", n |-> 255],
     [tag |-> "S16", n |-> -1], [tag |-> "U16", n |-> 65535],
     [tag |-> "S32", n |-> -7], [tag |-> "U32", n |-> 7],
     [tag |-> "S64", n |-> -9], [tag |-> "U64", n |-> 9],
     [tag |-> "Float32", bits |-> <<63, 192, 0, 0>>],
     [tag |-> "Float64", bits |-> <<128, 0, 0, 0, 0, 0, 0, 0>>],
     [tag |-> "Char", c |-> "c"],
     [tag |-> "String", s |-> <<"s", "t">>],
     [tag |-> "Enum", name |-> <<"e">>],
     [tag |-> "Flags", names |-> << <<"f">>, <<"g">> >>],
     [tag |-> "List", items |-> <<>>],
     [tag |-> "Record", fields |-> <<>>],
     [tag |-> "Variant", name |-> <<"c">>, payload |-> None],
     [tag |-> "Option", payload |-> None],
     [tag |-> "Result", ok |-> TRUE, payload |-> None],
     [tag |-> "Result", ok |-> FALSE, payload |-> None]}

RECURSIVE Depth(_)
\* How deep values nest in val.
Depth(val) ==
    LET Deepest(vs) == IF vs = <<>> THEN 0
                       ELSE CHOOSE d \in {Depth(vs[i]) : i \in 1..Len(vs)} :
                               \A i \in 1..Len(vs) : d >= Depth(vs[i])
    IN  CASE val.tag \in {"List", "Tuple"} ->
                IF val.items = <<>> THEN 0 ELSE 1 + Deepest(val.items)
          [] val.tag = "Record" ->
                IF val.fields = <<>> THEN 0
                ELSE 1 + Deepest([i \in 1..Len(val.fields) |-> val.fields[i][2]])
          [] val.tag \in {"Variant", "Option", "Result"} ->
                IF val.payload = None THEN 0 ELSE 1 + Depth(val.payload[1])
          [] OTHER -> 0

\* The caller builds a larger Val around val.
WrapList ==
    /\ Depth(value) < MaxDepth
    /\ \E items \in {<<value>>} \cup {<<sib, value>> : sib \in {Plain, Resource}}
                              \cup {<<value, sib>> : sib \in {Plain, Resource}} :
          value' = [tag |-> "List", items |-> items]
    /\ outcome' = None

WrapTuple ==
    /\ Depth(value) < MaxDepth
    /\ \E sib \in {Plain, Resource} : value' = [tag |-> "Tuple", items |-> <<value, sib>>]
    /\ outcome' = None

WrapRecord ==
    /\ Depth(value) < MaxDepth
    /\ \E fields \in {<< <<"k", value>> >>}
                     \cup {<< <<"a", sib>>, <<"k", value>> >> : sib \in {Plain, Resource}} :
          value' = [tag |-> "Record", fields |-> fields]
    /\ outcome' = None

WrapVariant ==
    /\ Depth(value) < MaxDepth
    /\ value' = [tag |-> "Variant", name |-> <<"c">>, payload |-> Some(value)]
    /\ outcome' = None

WrapOption ==
    /\ Depth(value) < MaxDepth
    /\ value' = [tag |-> "Option", payload |-> Some(value)]
    /\ outcome' = None

WrapResult ==
    /\ Depth(value) < MaxDepth
    /\ \E ok \in BOOLEAN : value' = [tag |-> "Result", ok |-> ok, payload |-> Some(value)]
    /\ outcome' = None

\* SerializableVal::from_val(&val)
FromVal ==
    /\ outcome' = Some([fn |-> "from_val", input |-> <<value>>, res |-> from_val(value)])
    /\ UNCHANGED value

\* SerializableVal::from_vals(&[.., val, ..])
FromVals ==
    /\ \E input \in {<<>>, <<value>>, <<Plain, value>>, <<value, Plain>>, <<value, Resource>>} :
          outcome' = Some([fn |-> "from_vals", input |-> input, res |-> from_vals(input)])
    /\ UNCHANGED value

InitChain ==
    /\ events = Chain_new
    /\ hasher = [k \in {} |-> 0]
    /\ calls = <<>>
    /\ op = "new"
    /\ arg = None
    /\ ret = None

IdleWire == wire = None /\ sent = <<>> /\ lifted = None
IdleHash == fa = <<0, 0, 0, 0>> /\ fb = <<0, 0, 0, 0>> /\ sa = None /\ sb = None
IdleVal == value = [tag |-> "Bool", b |-> TRUE] /\ outcome = None

Init == InitChain /\ IdleWire /\ IdleHash /\ IdleVal

Next ==
    \/ \E type_ \in TypeSpace, data \in DataSpace :
          Add(type_, data) /\ UNCHANGED <<wireVars, hashVars, valVars>>
    \/ \E hash \in HashSpace :
          GetEventByHash(hash) /\ UNCHANGED <<wireVars, hashVars, valVars>>
    \/ \E hash \in HashSpace :
          GetParent(hash) /\ UNCHANGED <<wireVars, hashVars, valVars>>
    \/ ReadHead /\ UNCHANGED <<wireVars, hashVars, valVars>>

Spec == Init /\ [][Next]_vars

NextWire ==
    \/ \E type_ \in TypeSpace, data \in DataSpace :
          Add(type_, data) /\ UNCHANGED <<wireVars, hashVars, valVars>>
    \/ Lower /\ UNCHANGED <<chainVars, hashVars, valVars>>
    \/ Lift /\ UNCHANGED <<chainVars, hashVars, valVars>>

SpecWire == Init /\ [][NextWire]_vars

InitHash ==
    /\ InitChain /\ IdleWire /\ IdleVal
    /\ fa \in F32Space \cup F64Space
    /\ fb \in F32Space \cup F64Space
    /\ sa = None
    /\ sb = None

NextHash ==
    \/ HashA /\ UNCHANGED <<chainVars, wireVars, valVars>>
    \/ HashB /\ UNCHANGED <<chainVars, wireVars, valVars>>

SpecHash == InitHash /\ [][NextHash]_vars

InitVal ==
    /\ InitChain /\ IdleWire /\ IdleHash
    /\ value \in Leaves
    /\ outcome = None

NextVal ==
    \/ WrapList /\ UNCHANGED <<chainVars, wireVars, hashVars>>
    \/ WrapTuple /\ UNCHANGED <<chainVars, wireVars, hashVars>>
    \/ WrapRecord /\ UNCHANGED <<chainVars, wireVars, hashVars>>
    \/ WrapVariant /\ UNCHANGED <<chainVars, wireVars, hashVars>>
    \/ WrapOption /\ UNCHANGED <<chainVars, wireVars, hashVars>>
    \/ WrapResult /\ UNCHANGED <<chainVars, wireVars, hashVars>>
    \/ FromVal /\ UNCHANGED <<chainVars, wireVars, hashVars>>
    \/ FromVals /\ UNCHANGED <<chainVars, wireVars, hashVars>>

SpecVal == InitVal /\ [][NextVal]_vars

(***************************************************************************)
(* Properties of the chain.                                                 *)
(***************************************************************************)
Stored(h) == \E i \in 1..Len(events) : events[i].hash = h

\* The position of the earliest entry whose stored hash is h (Stored(h) assumed).
Earliest(h) == CHOOSE i \in 1..Len(events) :
                  /\ events[i].hash = h
                  /\ \A j \in 1..(i - 1) : events[j].hash # h

\* The i-th add returned a hash that no earlier add returned.
FreshAt(i) == \A j \in 1..(i - 1) : calls[j].ret # calls[i].ret

\* C1 as stated: for every i > 0, get_parent of the hash returned by the i-th add
\* is the entry appended immediately before it, and get_parent of the hash
\* returned by the first add is no result.
C1_AsStated ==
    \A i \in 1..Len(calls) :
        get_parent(events, calls[i].ret) = IF i = 1 THEN None ELSE Some(i - 1)

\* C1 amended: get_parent of the hash returned by the first add is no result, and
\* for every later add whose returned hash and whose predecessor's returned hash
\* were each returned by no earlier add, get_parent of its hash is the entry
\* appended immediately before it.
C1_ParentTraversal ==
    \A i \in 1..Len(calls) :
        /\ i = 1 => get_parent(events, calls[i].ret) = None
        /\ (i > 1 /\ FreshAt(i) /\ FreshAt(i - 1))
              => get_parent(events, calls[i].ret) = Some(i - 1)

\* get_parent was asked for the hash of the last of three entries with pairwise
\* distinct hashes and answered the second.
C1_Witness ==
    /\ Len(events) = 3
    /\ \A i, j \in 1..3 : i # j => events[i].hash # events[j].hash
    /\ op = "get_parent"
    /\ arg = Some(calls[3].ret)
    /\ ret = Some(2)

\* C2 as stated: for every hash h an add returned, get_event_by_hash(h) is the
\* earliest entry whose stored hash is h and its type_ and data are those of the
\* Event passed to the add that returned h; a hash no entry carries gives no result.
C2_AsStated ==
    /\ \A k \in 1..Len(calls) :
          LET r == get_event_by_hash(events, calls[k].ret)
          IN  /\ r # None
              /\ r[1] = Earliest(calls[k].ret)
              /\ events[r[1]].event.type_ = calls[k].type_
              /\ events[r[1]].event.data = calls[k].data
    /\ \A h \in HashSpace : ~Stored(h) => get_event_by_hash(events, h) = None

\* C2 amended: for every hash h an add returned, get_event_by_hash(h) is the
\* earliest entry whose stored hash is h and its type_ and data are those of the
\* Event passed to the earliest add that returned h; a hash no entry carries
\* gives no result.
C2_Lookup ==
    /\ \A k \in 1..Len(calls) :
          LET r == get_event_by_hash(events, calls[k].ret)
              first == CHOOSE j \in 1..k : calls[j].ret = calls[k].ret /\ FreshAt(j)
          IN  /\ r # None
              /\ r[1] = Earliest(calls[k].ret)
              /\ events[r[1]].event.type_ = calls[first].type_
              /\ events[r[1]].event.data = calls[first].data
    /\ \A h \in HashSpace : ~Stored(h) => get_event_by_hash(events, h) = None
    /\ op = "get_event_by_hash" =>
          ret = IF Stored(arg[1]) THEN Some(Earliest(arg[1])) ELSE None

\* get_event_by_hash was asked for a hash that two entries carry and answered
\* the earlier one.
C2_Witness ==
    /\ op = "get_event_by_hash"
    /\ ret # None
    /\ \E j \in 1..Len(events) : j > ret[1] /\ events[j].hash = arg[1]

\* C3: head() is absent exactly when the chain is empty and otherwise is the
\* hash the most recent add returned, the stored hash of the last entry.
C3_Head ==
    /\ head(events) = None <=> Len(events) = 0
    /\ Len(calls) = Len(events)
    /\ Len(events) > 0 =>
          /\ head(events) = Some(calls[Len(calls)].ret)
          /\ head(events) = Some(events[Len(events)].hash)
    /\ op = "head" =>
          ret = IF Len(calls) = 0 THEN None ELSE Some(calls[Len(calls)].ret)

\* head() answered after three appends whose first and last hashes differ.
C3_Witness ==
    /\ op = "head"
    /\ Len(events) = 3
    /\ events[1].hash # events[3].hash
    /\ ret = Some(calls[3].ret)

\* C4: add is always possible, makes the chain one longer with the new entry
\* last and every stored entry as it was, also when the new entry's hash is
\* already stored; get_event_by_hash, get_parent and head change nothing.
C4_AppendOnly ==
    /\ [](Len(events) < MaxLen =>
            \A type_ \in TypeSpace, data \in DataSpace : ENABLED Add(type_, data))
    /\ [][/\ op' = "add" =>
               /\ Len(events') = Len(events) + 1
               /\ SubSeq(events', 1, Len(events)) = events
               /\ events'[Len(events')].hash = ret'[1]
               /\ events'[Len(events')].event.type_ = calls'[Len(calls')].type_
               /\ events'[Len(events')].event.data = calls'[Len(calls')].data
          /\ op' \in {"get_event_by_hash", "get_parent", "head"} => events' = events]_vars

\* An add has just stored an entry whose hash an earlier entry carries too.
C4_Witness ==
    /\ op = "add"
    /\ \E i \in 1..(Len(events) - 1) : events[i].hash = events[Len(events)].hash

\* C5: the first entry's parent is absent, every later entry's parent is the
\* stored hash of the entry before it, and no operation changes a stored parent.
C5_ParentAssignment ==
    /\ [](\A i \in 1..Len(events) :
            events[i].event.parent = IF i = 1 THEN None ELSE Some(events[i - 1].hash))
    /\ [][/\ Len(events') >= Len(events)
          /\ \A i \in 1..Len(events) :
                events'[i].event.parent = events[i].event.parent]_vars

\* Three entries whose parents are absent, the first hash and the second hash.
C5_Witness ==
    /\ Len(events) = 3
    /\ events[1].hash # events[2].hash
    /\ events[1].event.parent = None
    /\ events[2].event.parent = Some(events[1].hash)
    /\ events[3].event.parent = Some(events[2].hash)

\* C6: the hash add returns and stores is the hasher's value for the event with
\* parent absent, so that two adds of the same type_ and data return the same
\* hash wherever they happen in the chain.
C6_HashIgnoresPosition ==
    \A k \in 1..Len(calls) :
        LET key == HashKey(Event_new(calls[k].type_, calls[k].data))
        IN  /\ key \in DOMAIN hasher
            /\ calls[k].ret = hasher[key]
            /\ events[k].hash = calls[k].ret
            /\ \A j \in 1..Len(calls) :
                  (calls[j].type_ = calls[k].type_ /\ calls[j].data = calls[k].data)
                     => calls[j].ret = calls[k].ret

\* The same type_ and data appended first and third, an event of another hash in
\* between: equal hashes, different stored parents.
C6_Witness ==
    /\ Len(events) = 3
    /\ calls[1].type_ = calls[3].type_
    /\ calls[1].data = calls[3].data
    /\ calls[2].type_ # calls[1].type_
    /\ events[2].hash # events[1].hash
    /\ events[1].hash = events[3].hash
    /\ events[1].event.parent # events[3].event.parent

RECURSIVE Hops(_, _, _)
\* How many entries repeated get_parent returns, starting from hash, before it
\* returns no result; -1 when it still returns one after fuel calls.
Hops(evs, hash, fuel) ==
    IF fuel = 0 THEN -1
    ELSE LET p == get_parent(evs, hash)
         IN  IF p = None THEN 0
             ELSE LET rest == Hops(evs, evs[p[1]].hash, fuel - 1)
                  IN  IF rest = -1 THEN -1 ELSE rest + 1

\* C10: when get_parent(h) returns an entry, that entry is stored strictly
\* before the earliest entry whose hash is h; so repeated get_parent from any
\* hash returns fewer entries than the chain holds and then no result.
C10_TraversalTerminates ==
    \A h \in HashSpace :
        /\ get_parent(events, h) # None =>
              /\ Stored(h)
              /\ get_parent(events, h)[1] < Earliest(h)
        /\ Hops(events, h, Len(events) + 1) # -1
        /\ Hops(events, h, Len(events) + 1) <= IF Len(events) = 0 THEN 0 ELSE Len(events) - 1

\* Three entries, the first and the last sharing a hash, and a walk from the
\* middle entry's hash that returns one entry and stops.
C10_Witness ==
    /\ Len(events) = 3
    /\ events[1].hash = events[3].hash
    /\ events[2].hash # events[1].hash
    /\ Hops(events, events[2].hash, 4) = 1
    /\ op = "get_parent"
    /\ arg = Some(events[2].hash)
    /\ ret = Some(1)

\* C7: encoding a chain built by new and add and decoding the text gives a
\* chain with the same entries in the same order, equal in hash, type_, parent
\* and data, on which head, get_event_by_hash and get_parent answer alike.
C7_RoundTrip ==
    lifted # None =>
          /\ lifted[1].ok
          /\ Len(lifted[1].v) = Len(sent)
          /\ \A i \in 1..Len(sent) :
                /\ lifted[1].v[i].hash = sent[i].hash
                /\ lifted[1].v[i].event.type_ = sent[i].event.type_
                /\ lifted[1].v[i].event.parent = sent[i].event.parent
                /\ lifted[1].v[i].event.data = sent[i].event.data
          /\ head(lifted[1].v) = head(sent)
          /\ \A h \in HashSpace :
                /\ get_event_by_hash(lifted[1].v, h) = get_event_by_hash(sent, h)
                /\ get_parent(lifted[1].v, h) = get_parent(sent, h)

\* A chain of three events, one with a type_ that needs escaping, was encoded
\* and decoded.
C7_Witness ==
    /\ lifted # None
    /\ lifted[1].ok
    /\ Len(sent) = 3
    /\ Len(lifted[1].v) = 3
    /\ \E i \in 1..3 : Len(lifted[1].v[i].event.type_) = 4
    /\ lifted[1].v[3].event.parent = Some(sent[2].hash)
    /\ sent[2].hash > 99

BothHashed == sa # None /\ sb # None /\ fa.tag = fb.tag
Regular(v) == ~is_nan(v) /\ ~is_zero(v)

\* C8: two floats of the same width feed the hasher the same input when both
\* are NaN, when both are zero, or when their bits are equal; two that are
\* neither NaN nor zero and differ in bits feed different input; and one that is
\* neither NaN nor zero never feeds what a NaN or a zero feeds.
C8_FloatHash ==
    BothHashed =>
        /\ (is_nan(fa) /\ is_nan(fb)) => sa = sb
        /\ (is_zero(fa) /\ is_zero(fb)) => sa = sb
        /\ fa.bits = fb.bits => sa = sb
        /\ (Regular(fa) /\ Regular(fb) /\ fa.bits # fb.bits) => sa # sb
        /\ (Regular(fa) /\ ~Regular(fb)) => sa # sb

\* +0.0 and -0.0 of 64 bits were hashed.
C8_Witness ==
    /\ BothHashed
    /\ fa = Float64(<<0, 0, 0, 0, 0, 0, 0, 0>>)
    /\ fb = Float64(<<128, 0, 0, 0, 0, 0, 0, 0>>)
    /\ sa = sb

RECURSIVE HasResource(_)
\* val is a resource or holds one at some depth.
HasResource(val) ==
    CASE val.tag = "Resource" -> TRUE
      [] val.tag \in {"List", "Tuple"} ->
            \E i \in 1..Len(val.items) : HasResource(val.items[i])
      [] val.tag = "Record" ->
            \E i \in 1..Len(val.fields) : HasResource(val.fields[i][2])
      [] val.tag \in {"Variant", "Option", "Result"} ->
            val.payload # None /\ HasResource(val.payload[1])
      [] OTHER -> FALSE

\* C9: from_val and from_vals panic on input that holds a resource at any
\* depth, and return Ok with the whole mirrored value on any other input; they
\* never return Err.
C9_ResourceFailure ==
    outcome # None =>
        LET call == outcome[1]
            tainted == \E i \in 1..Len(call.input) : HasResource(call.input[i])
        IN  /\ call.res.kind # "Err"
            /\ tainted <=> call.res.kind = "Panic"
            /\ ~tainted =>
                  /\ call.res.kind = "Ok"
                  /\ call.fn = "from_val" => call.res.sv = call.input[1]
                  /\ call.fn = "from_vals" => call.res.svs = call.input

\* from_val panicked on a value that holds a resource two levels down, behind a
\* resource-free sibling.
C9_Witness ==
    /\ outcome # None
    /\ outcome[1].fn = "from_val"
    /\ outcome[1].res.kind = "Panic"
    /\ value.tag = "Option"
    /\ value.payload[1].tag = "List"
    /\ value.payload[1].items = <<Plain, Resource>>

====
